---- MODULE Spec2Model ----
(***************************************************************************)
(* A model of the prayer reminder bot (src/bot.py): the subscriber list    *)
(* and its persisted file, the sent-reminder ledger, the periodic check    *)
(* of the prayer times and the three chat commands.                        *)
(***************************************************************************)
EXTENDS Integers, Sequences, FiniteSets, TLC

VARIABLES
    users,            \* prayer_bot.users: the in-memory list of chat ids
    file,             \* users.json: NoFile, or the JSON array it holds
    sent_reminders,   \* prayer_bot.sent_reminders: date key -> list of reminder keys
    now,              \* the wall clock in TIMEZONE at the last step: [day, sec]
    op,               \* the last operation that ran, with its argument
    payload,          \* the answer of the timing service to its fetch, if it made one
    reply,            \* the reply it sent, if it is a command handler
    sentNow,          \* the prayers send_reminder was called for by the last operation
    sendLog,          \* the send attempts of the last operation: [prayer, chat_id, ok]
    dispatched,       \* history: per prayer, the send_reminder calls on the clock's date
    dropped,          \* the reminder keys the last operation threw out of the ledger
    before,           \* history: for subscribed a, b: a was subscribed before b
    pc_main,          \* where main() is
    startedAt,        \* the clock when the interval job was added
    nextRun,          \* the clock of the next run of the interval job
    nticks,           \* history: the number of runs of the interval job on schedule
    service,          \* the answer the timing service gives when it is steady
    stopped,          \* history: the chat ids whose last completed command is /stop
    barred,           \* history: the chat ids stopped since before the dispatch began
    hpc,              \* where each worker thread is in the handler it runs
    hmsg,             \* the message each worker thread handles: [cmd, chat_id]
    tpc,              \* where the job's thread is in send_reminder
    idx,              \* the position of the iterator of "for chat_id in self.users"
    sentTo,           \* the chat ids send_reminder sent to, in order
    stable            \* history: the chat ids in the list ever since the dispatch began

vars == <<users, file, sent_reminders, now, payload, op, reply, sentNow, sendLog,
          dispatched, dropped, before, pc_main, startedAt, nextRun, nticks, service,
          stopped, barred, hpc, hmsg, tpc, idx, sentTo, stable>>

\* The state of the worker threads and of a dispatch in steps
conc == <<barred, hpc, hmsg, tpc, idx, sentTo, stable>>

----------------------------------------------------------------------------
(* Bounds of the model *)

MaxId == 2
MaxDay == 1
MaxStartSec == 1

ChatIds == 1..MaxId
Days == 0..MaxDay

----------------------------------------------------------------------------
(* Constants of the program *)

HttpOk == 200
WindowSecs == 60
MinuteSecs == 60
HourSecs == 60 * MinuteSecs
DaySecs == 24 * HourSecs
IntervalSecs == 1 * MinuteSecs

\* TIMEZONE = pytz.timezone('Africa/Algiers').  datetime.now(TIMEZONE) carries
\* the zone's current offset, CET (+01:00, no daylight saving).  A pytz zone
\* given as tzinfo= to replace() carries the zone's first offset, its local
\* mean time, which pytz holds as +00:12.
NowOffsetMinutes == 60
ReplaceOffsetMinutes == 12

\* bot = telebot.TeleBot(TELEGRAM_TOKEN): a threaded bot, whose handlers run
\* on a pool of two worker threads.
NumThreads == 2
Threads == 1..NumThreads

NoMessage == [cmd |-> "none", chat_id |-> 0]

PrayerOrder == <<"Fajr", "Dhuhr", "Asr", "Maghrib", "Isha">>
PrayerNames == {PrayerOrder[i] : i \in 1..Len(PrayerOrder)}

Range(s) == {s[i] : i \in 1..Len(s)}

Abs(x) == IF x < 0 THEN -x ELSE x

Clock(h, m, s) == h * HourSecs + m * MinuteSecs + s

Secs(t) == t.day * DaySecs + t.sec

Later(a, b) == Secs(a) < Secs(b)

AddSecs(t, n) == [day |-> (Secs(t) + n) \div DaySecs, sec |-> (Secs(t) + n) % DaySecs]

----------------------------------------------------------------------------
(* datetime.strptime(s, "%H:%M") on a string given as its characters *)

DigitChars == <<"0", "1", "2", "3", "4", "5", "6", "7", "8", "9">>

DigitSet == {DigitChars[i] : i \in 1..Len(DigitChars)}

DigitValue == [c \in DigitSet |-> (CHOOSE i \in 1..Len(DigitChars) : DigitChars[i] = c) - 1]

IsDigit(c) == c \in DigitSet

DigitVal(c) == DigitValue[c]

\* %H is 2[0-3]|[0-1]\d|\d and must be followed by the colon.
HourLen(s) ==
    IF /\ Len(s) >= 3 /\ IsDigit(s[1]) /\ IsDigit(s[2]) /\ s[3] = ":"
       /\ 10 * DigitVal(s[1]) + DigitVal(s[2]) <= 23
    THEN 2
    ELSE IF Len(s) >= 2 /\ IsDigit(s[1]) /\ s[2] = ":" THEN 1 ELSE 0

\* %M is [0-5]\d|\d, starting at position k.
MinuteLen(s, k) ==
    IF Len(s) >= k + 1 /\ IsDigit(s[k]) /\ IsDigit(s[k + 1]) /\ DigitVal(s[k]) <= 5
    THEN 2
    ELSE IF Len(s) >= k /\ IsDigit(s[k]) THEN 1 ELSE 0

Number(s, k, n) ==
    IF n = 2 THEN 10 * DigitVal(s[k]) + DigitVal(s[k + 1]) ELSE DigitVal(s[k])

strptime(s) ==
    LET hl == HourLen(s)
        ml == IF hl = 0 THEN 0 ELSE MinuteLen(s, hl + 2)
    IN  IF hl = 0 \/ ml = 0 \/ hl + 1 + ml # Len(s)
        THEN [ok |-> FALSE, hour |-> 0, minute |-> 0]
        ELSE [ok |-> TRUE, hour |-> Number(s, 1, hl), minute |-> Number(s, hl + 2, ml)]

----------------------------------------------------------------------------
(* The timing service *)

T0500 == <<"0", "5", ":", "0", "0">>
T1230 == <<"1", "2", ":", "3", "0">>
T1600 == <<"1", "6", ":", "0", "0">>
T1845 == <<"1", "8", ":", "4", "5">>
T2000 == <<"2", "0", ":", "0", "0">>
T0005 == <<"0", "0", ":", "0", "5">>
T0100 == <<"0", "1", ":", "0", "0">>
T2359 == <<"2", "3", ":", "5", "9">>
T0632 == <<"0", "6", ":", "3", "2">>
T2000CET == T2000 \o <<" ", "(", "C", "E", "T", ")">>

Timings(fajr, dhuhr, asr, maghrib, isha) ==
    [k \in PrayerNames \cup {"Sunrise"} |->
        CASE k = "Fajr" -> fajr
          [] k = "Dhuhr" -> dhuhr
          [] k = "Asr" -> asr
          [] k = "Maghrib" -> maghrib
          [] k = "Isha" -> isha
          [] OTHER -> T0632]

Without(f, k) == [x \in DOMAIN f \ {k} |-> f[x]]

DayTimings == Timings(T0500, T1230, T1600, T1845, T2000)
EdgeTimings == Timings(T0005, T0100, T1600, T2359, T2359)

\* The answers of the service: no answer at all (a transport or JSON error),
\* or a body with its embedded code and its timings.
Answer(code, timings) == [transport |-> TRUE, code |-> code, timings |-> timings]
NoAnswer == [transport |-> FALSE, code |-> 0, timings |-> DayTimings]

\* An answer is held in the state by its name.
Answers ==
    [GoodDay |-> Answer(HttpOk, DayTimings),
     GoodEdge |-> Answer(HttpOk, EdgeTimings),
     BadCode |-> Answer(400, DayTimings),
     MissingKey |-> Answer(HttpOk, Without(DayTimings, "Isha")),
     BadTime |-> Answer(HttpOk, Timings(T0500, T1230, T1600, T1845, T2000CET)),
     NoAnswer |-> NoAnswer]

Service(name) == Answers[name]

NoFetch == "NoFetch"

GoodPayloads == {"GoodDay", "GoodEdge"}
Payloads == {"GoodDay", "BadCode", "MissingKey", "BadTime", "NoAnswer"}
TodayPayloads == {"GoodDay", "NoAnswer"}

None == [none |-> TRUE]

get_prayer_times(name) ==
    LET pl == Service(name) IN
    IF ~pl.transport THEN None
    ELSE IF pl.code = HttpOk
         THEN IF PrayerNames \subseteq DOMAIN pl.timings
              THEN [p \in PrayerNames |-> pl.timings[p]]
              ELSE None
         ELSE None

----------------------------------------------------------------------------
(* The subscriber store *)

\* json.dump of a list of non-negative integers, as the characters written
RECURSIVE IntChars(_)
IntChars(n) ==
    IF n < 10 THEN <<DigitChars[n + 1]>>
    ELSE IntChars(n \div 10) \o <<DigitChars[(n % 10) + 1]>>

RECURSIVE DumpItems(_)
DumpItems(u) ==
    IF u = <<>> THEN <<>>
    ELSE IF Len(u) = 1 THEN IntChars(u[1])
    ELSE IntChars(u[1]) \o <<",", " ">> \o DumpItems(Tail(u))

json_dump(u) == <<"[">> \o DumpItems(u) \o <<"]">>

\* json.load of such an array: acc is the list read so far, cur the number
\* being read (-1 between two numbers)
RECURSIVE LoadItems(_, _, _, _)
LoadItems(txt, i, acc, cur) ==
    IF i > Len(txt) THEN acc
    ELSE IF IsDigit(txt[i])
         THEN LoadItems(txt, i + 1, acc,
                        (IF cur < 0 THEN 0 ELSE 10 * cur) + DigitVal(txt[i]))
         ELSE LoadItems(txt, i + 1, IF cur < 0 THEN acc ELSE Append(acc, cur), -1)

json_load(txt) == LoadItems(txt, 1, <<>>, -1)

NoFile == <<>>

\* A load that never finds the file.
load_users_fresh(f) == <<>>

\* os.path.exists(USERS_FILE) fails exactly when the file was never written
load_users(f) == IF f = NoFile THEN <<>> ELSE json_load(f)

save_users(u) == json_dump(u)

\* list.remove: drops the first occurrence
RECURSIVE Remove(_, _)
Remove(s, x) ==
    IF s = <<>> THEN <<>>
    ELSE IF Head(s) = x THEN Tail(s) ELSE <<Head(s)>> \o Remove(Tail(s), x)

\* A start that inserts at the head of the list.
start_users_prepend(u, chat_id) ==
    IF chat_id \notin Range(u) THEN <<chat_id>> \o u ELSE u

start_users(u, chat_id) == IF chat_id \notin Range(u) THEN Append(u, chat_id) ELSE u

\* A stop that empties the list of anyone who is not subscribed.
stop_users_clear(u, chat_id) == IF chat_id \in Range(u) THEN Remove(u, chat_id) ELSE <<>>

stop_users(u, chat_id) == IF chat_id \in Range(u) THEN Remove(u, chat_id) ELSE u

\* Both handlers call save_users only in the branch that changed the list.
start_file(f, u, chat_id) ==
    IF chat_id \notin Range(u) THEN save_users(start_users(u, chat_id)) ELSE f

stop_file(f, u, chat_id) ==
    IF chat_id \in Range(u) THEN save_users(stop_users(u, chat_id)) ELSE f

NoReply == [kind |-> "none"]

start_reply(u, chat_id) == [kind |-> "welcome"]

stop_reply(u, chat_id) ==
    IF chat_id \in Range(u) THEN [kind |-> "deactivated"] ELSE [kind |-> "not_subscribed"]

\* A /today that stays silent when the fetch fails.
today_reply_silent(prayers) ==
    IF prayers # None
    THEN [kind |-> "times",
          lines |-> [i \in 1..Len(PrayerOrder) |-> <<PrayerOrder[i], prayers[PrayerOrder[i]]>>]]
    ELSE NoReply

today_reply(prayers) ==
    IF prayers # None
    THEN [kind |-> "times",
          lines |-> [i \in 1..Len(PrayerOrder) |-> <<PrayerOrder[i], prayers[PrayerOrder[i]]>>]]
    ELSE [kind |-> "apology"]

----------------------------------------------------------------------------
(* The reminder dispatcher *)

\* send_reminder over the list u, where bot.send_message raises for the chat
\* ids in failing: the attempts made, in order.
\* A dispatcher that gives up at the first send that raises.
RECURSIVE send_reminder_abort(_, _, _)
send_reminder_abort(prayer_name, u, failing) ==
    IF u = <<>> THEN <<>>
    ELSE IF Head(u) \in failing
         THEN <<[prayer |-> prayer_name, chat_id |-> Head(u), ok |-> FALSE]>>
         ELSE <<[prayer |-> prayer_name, chat_id |-> Head(u), ok |-> TRUE]>>
              \o send_reminder_abort(prayer_name, Tail(u), failing)

RECURSIVE send_reminder(_, _, _)
send_reminder(prayer_name, u, failing) ==
    IF u = <<>> THEN <<>>
    ELSE <<[prayer |-> prayer_name, chat_id |-> Head(u), ok |-> Head(u) \notin failing]>>
         \o send_reminder(prayer_name, Tail(u), failing)

----------------------------------------------------------------------------
(* The schedule checker *)

\* The seconds between two aware datetimes are taken on the UTC line.
Utc(day, sec, offsetMinutes) == day * DaySecs + sec - offsetMinutes * MinuteSecs

\* strptime(...).replace(year, month, day of now, tzinfo=TIMEZONE)
prayer_time(t, parsed) ==
    Utc(t.day, Clock(parsed.hour, parsed.minute, 0), ReplaceOffsetMinutes)

reminder_time(t, parsed) == prayer_time(t, parsed) - HourSecs

time_diff(t, parsed) ==
    Abs(Utc(t.day, t.sec, NowOffsetMinutes) - reminder_time(t, parsed))

reminder_key(today_key, prayer_name) == <<today_key, prayer_name>>

\* A window that only the exact second falls in.
InWindowExact(diff) == diff < 1

InWindow(diff) == diff < WindowSecs

\* A checker that does not look at the notified list.
ShouldSendAlways(diff, key, notified) == InWindow(diff)

ShouldSend(diff, key, notified) == InWindow(diff) /\ key \notin Range(notified)

\* A checker that appends the key twice.
MarkSentTwice(notified, key) == Append(Append(notified, key), key)

\* A checker that forgets what it sent.
MarkSentForgets(notified, key) == notified

MarkSent(notified, key) == Append(notified, key)

\* A reset that keeps the entries of the earlier dates.
ResetLedgerKeep(ledger, today_key) ==
    IF today_key \notin DOMAIN ledger THEN (today_key :> <<>>) @@ ledger ELSE ledger

ResetLedger(ledger, today_key) ==
    IF today_key \notin DOMAIN ledger THEN (today_key :> <<>>) ELSE ledger

\* The loop over prayers.items(), from the i-th prayer on: the notified list
\* and the prayers dispatched so far.  A time string strptime rejects raises
\* out of the loop.
RECURSIVE CheckLoop(_, _, _, _, _)
CheckLoop(i, prayers, t, notified, sent) ==
    IF i > Len(PrayerOrder)
    THEN [notified |-> notified, sent |-> sent, raised |-> FALSE]
    ELSE LET name == PrayerOrder[i]
             parsed == strptime(prayers[name])
             key == reminder_key(t.day, name)
         IN  IF ~parsed.ok
             THEN [notified |-> notified, sent |-> sent, raised |-> TRUE]
             ELSE IF ShouldSend(time_diff(t, parsed), key, notified)
                  THEN CheckLoop(i + 1, prayers, t, MarkSent(notified, key),
                                 Append(sent, name))
                  ELSE CheckLoop(i + 1, prayers, t, notified, sent)

\* check_prayer_times at clock t with the fetch result prayers: the ledger it
\* leaves and the prayers it dispatched.
TickBody(prayers, t, ledger) ==
    LET reset == ResetLedger(ledger, t.day)
        r == CheckLoop(1, prayers, t, reset[t.day], <<>>)
    IN  [ledger |-> [reset EXCEPT ![t.day] = r.notified],
         sent |-> r.sent, raised |-> r.raised]

\* A checker that resets the ledger before it looks at the fetch result.
TickResultResetFirst(prayers, t, ledger) ==
    IF prayers = None
    THEN [ledger |-> ResetLedger(ledger, t.day), sent |-> <<>>, raised |-> FALSE]
    ELSE TickBody(prayers, t, ledger)

TickResult(prayers, t, ledger) ==
    IF prayers = None
    THEN [ledger |-> ledger, sent |-> <<>>, raised |-> FALSE]
    ELSE TickBody(prayers, t, ledger)

\* The attempts of the dispatches of one tick, in order; fails gives, for each
\* dispatched prayer, the chat ids whose send raises.
RECURSIVE Sends(_, _, _)
Sends(sent, u, fails) ==
    IF sent = <<>> THEN <<>>
    ELSE send_reminder(Head(sent), u, fails[Head(sent)]) \o Sends(Tail(sent), u, fails)

ZeroCount == [p \in PrayerNames |-> 0]

\* The history as the clock moves on to t
CountOn(t) == IF t.day = now.day THEN dispatched ELSE ZeroCount

\* The reminder keys of a ledger, and those a step removes from it
Keys(ledger) == UNION {Range(ledger[d]) : d \in DOMAIN ledger}

Dropped(ledger, after) == Keys(ledger) \ Keys(after)

Count(t, sent) ==
    [p \in PrayerNames |-> CountOn(t)[p] + (IF p \in Range(sent) THEN 1 ELSE 0)]

check_prayer_times(t, pl) ==
    LET r == TickResult(get_prayer_times(pl), t, sent_reminders)
    IN  /\ now' = t
        /\ payload' = pl
        /\ op' = [name |-> "check_prayer_times"]
        /\ sent_reminders' = r.ledger
        /\ sentNow' = r.sent
        /\ \E fails \in [Range(r.sent) -> SUBSET Range(users)] :
               sendLog' = Sends(r.sent, users, fails)
        /\ dispatched' = Count(t, r.sent)
        /\ dropped' = Dropped(sent_reminders, r.ledger)
        /\ reply' = NoReply
        /\ UNCHANGED <<users, file, before>>

----------------------------------------------------------------------------
(* The command handlers *)

Before(u, chat_id) ==
    IF chat_id \in Range(u) THEN before
    ELSE before \cup {<<a, chat_id>> : a \in Range(u)}

After(u, chat_id) == {pr \in before : pr[1] # chat_id /\ pr[2] # chat_id}

start(chat_id) ==
    /\ users' = start_users(users, chat_id)
    /\ file' = start_file(file, users, chat_id)
    /\ reply' = start_reply(users, chat_id)
    /\ before' = Before(users, chat_id)
    /\ op' = [name |-> "start", chat_id |-> chat_id]
    /\ payload' = NoFetch
    /\ sentNow' = <<>>
    /\ sendLog' = <<>>
    /\ dropped' = {}
    /\ UNCHANGED <<sent_reminders, now, dispatched>>

stop(chat_id) ==
    /\ users' = stop_users(users, chat_id)
    /\ file' = stop_file(file, users, chat_id)
    /\ reply' = stop_reply(users, chat_id)
    /\ before' = After(users, chat_id)
    /\ op' = [name |-> "stop", chat_id |-> chat_id]
    /\ payload' = NoFetch
    /\ sentNow' = <<>>
    /\ sendLog' = <<>>
    /\ dropped' = {}
    /\ UNCHANGED <<sent_reminders, now, dispatched>>

\* A /today that empties the ledger.
today_clears(pl) ==
    /\ payload' = pl
    /\ reply' = today_reply(get_prayer_times(pl))
    /\ op' = [name |-> "today"]
    /\ sentNow' = <<>>
    /\ sendLog' = <<>>
    /\ dropped' = {}
    /\ sent_reminders' = <<>>
    /\ UNCHANGED <<users, file, now, dispatched, before>>

today(pl) ==
    /\ payload' = pl
    /\ reply' = today_reply(get_prayer_times(pl))
    /\ op' = [name |-> "today"]
    /\ sentNow' = <<>>
    /\ sendLog' = <<>>
    /\ dropped' = {}
    /\ UNCHANGED <<users, file, sent_reminders, now, dispatched, before>>

----------------------------------------------------------------------------
(* main() and the interval job *)

\* add_job(..., 'interval', minutes=1) with neither a start date nor a next
\* run time: the trigger's start date is the clock plus one interval.
\* A job whose first run is due at once.
FirstRunAtOnce(t) == t

FirstRun(t) == AddSecs(t, IntervalSecs)

\* The first point of the job's grid after the clock t.
NextRunAfter(t) ==
    AddSecs(startedAt,
            (((Secs(t) - Secs(startedAt)) \div IntervalSecs) + 1) * IntervalSecs)

MainScheduler ==
    /\ pc_main = "main"
    /\ pc_main' = "scheduler"
    /\ startedAt' = now
    /\ nextRun' = FirstRun(now)
    /\ op' = [name |-> "scheduler.start"]
    /\ UNCHANGED <<users, file, sent_reminders, now, payload, reply, sentNow, sendLog,
                   dispatched, dropped, before, nticks, service, stopped, conc>>

MainPolling ==
    /\ pc_main = "scheduler"
    /\ pc_main' = "polling"
    /\ op' = [name |-> "infinity_polling"]
    /\ UNCHANGED <<users, file, sent_reminders, now, payload, reply, sentNow, sendLog,
                   dispatched, dropped, before, startedAt, nextRun, nticks,
                   service, stopped, conc>>

SchedulerRunning == pc_main \in {"scheduler", "polling"}

\* main() calls infinity_polling right after scheduler.start(), a minute
\* before the first run of the job is due.
Polling == pc_main = "polling"

----------------------------------------------------------------------------
(* The bot with a free clock: the clock moves from one reading to the     *)
(* next, and at each reading the job runs or, late or skipped, does not    *)

\* The readings are one hour before Asr at 16:00 and around the minute at
\* which the code sends its reminder.
ClockReadings ==
    { Clock(15, 0, 10),
      Clock(15, 47, 0), Clock(15, 47, 1), Clock(15, 48, 59), Clock(15, 49, 0) }

Least(S) == CHOOSE x \in S : \A y \in S : x <= y

NextReading(t) ==
    IF \E s \in ClockReadings : s > t.sec
    THEN [day |-> t.day, sec |-> Least({s \in ClockReadings : s > t.sec})]
    ELSE [day |-> t.day + 1, sec |-> Least(ClockReadings)]

DupFree(s) == \A i, j \in 1..Len(s) : s[i] = s[j] => i = j

UserLists(ids) ==
    {s \in UNION {[1..n -> ids] : n \in 0..Cardinality(ids)} : DupFree(s)}

InitAt(secs, answers, ids) ==
    /\ service \in answers
    /\ file \in {NoFile} \cup {json_dump(u) : u \in UserLists(ids)}
    /\ users = load_users(file)
    /\ sent_reminders = <<>>
    /\ now \in {[day |-> 0, sec |-> s] : s \in secs}
    /\ payload = NoFetch
    /\ op = [name |-> "init"]
    /\ reply = NoReply
    /\ sentNow = <<>>
    /\ sendLog = <<>>
    /\ dispatched = ZeroCount
    /\ dropped = {}
    /\ before = {pr \in Range(users) \X Range(users) :
                    \E i, j \in 1..Len(users) : i < j /\ pr = <<users[i], users[j]>>}
    /\ pc_main = "main"
    /\ startedAt = now
    /\ nextRun = now
    /\ nticks = 0
    /\ stopped = {}
    /\ barred = {}
    /\ hpc = [h \in Threads |-> "idle"]
    /\ hmsg = [h \in Threads |-> NoMessage]
    /\ tpc = "idle"
    /\ idx = 0
    /\ sentTo = <<>>
    /\ stable = {}

Init == InitAt({0}, {"NoAnswer"}, ChatIds)

Tick ==
    /\ Polling
    /\ NextReading(now).day \in Days
    /\ \E pl \in Payloads : check_prayer_times(NextReading(now), pl)
    /\ nextRun' = NextRunAfter(NextReading(now))
    /\ UNCHANGED <<pc_main, startedAt, nticks, service, stopped, conc>>

\* The clock reaches its next reading and nothing runs.
Pass ==
    /\ Polling
    /\ NextReading(now).day \in Days
    /\ now' = NextReading(now)
    /\ dispatched' = CountOn(now')
    /\ dropped' = {}
    /\ op' = [name |-> "clock"]
    /\ payload' = NoFetch
    /\ reply' = NoReply
    /\ sentNow' = <<>>
    /\ sendLog' = <<>>
    /\ UNCHANGED <<users, file, sent_reminders, before, pc_main, startedAt, nextRun,
                   nticks, service, stopped, conc>>

Start ==
    /\ Polling
    /\ \E c \in ChatIds : start(c)
    /\ UNCHANGED <<pc_main, startedAt, nextRun, nticks, service, stopped, conc>>

Stop ==
    /\ Polling
    /\ \E c \in ChatIds : stop(c)
    /\ UNCHANGED <<pc_main, startedAt, nextRun, nticks, service, stopped, conc>>

Today ==
    /\ Polling
    /\ \E pl \in TodayPayloads : today(pl)
    /\ UNCHANGED <<pc_main, startedAt, nextRun, nticks, service, stopped, conc>>

Next == MainScheduler \/ MainPolling \/ Tick \/ Pass \/ Start \/ Stop \/ Today

Spec == Init /\ [][Next]_vars

----------------------------------------------------------------------------
(* The bot on schedule: every run of the job reads the clock at its due    *)
(* time, and the timing service gives the same time-table to every fetch   *)

\* One subscriber comes and goes while the job runs.
SchedIds == {1}

InitSched == InitAt(0..MaxStartSec, GoodPayloads, SchedIds)

SchedTick ==
    /\ Polling
    /\ nextRun.day < MaxDay
    /\ check_prayer_times(nextRun, service)
    /\ nextRun' = AddSecs(nextRun, IntervalSecs)
    /\ nticks' = nticks + 1
    /\ UNCHANGED <<pc_main, startedAt, service, stopped, conc>>

SchedStart ==
    /\ Polling
    /\ \E c \in SchedIds : start(c)
    /\ UNCHANGED <<pc_main, startedAt, nextRun, nticks, service, stopped, conc>>

SchedStop ==
    /\ Polling
    /\ \E c \in SchedIds : stop(c)
    /\ UNCHANGED <<pc_main, startedAt, nextRun, nticks, service, stopped, conc>>

NextSched == MainScheduler \/ MainPolling \/ SchedTick \/ SchedStart \/ SchedStop

SpecSched == InitSched /\ [][NextSched]_vars

----------------------------------------------------------------------------
(* The life of the process: the operator's interrupt, the end of main()    *)
(* and a restart, which builds a new PrayerBot from the file               *)

\* KeyboardInterrupt comes out of bot.infinity_polling(): the listener is
\* gone when the except clause of main() starts.
Interrupt ==
    /\ Polling
    /\ pc_main' = "except"
    /\ op' = [name |-> "KeyboardInterrupt"]
    /\ payload' = NoFetch
    /\ reply' = NoReply
    /\ sentNow' = <<>>
    /\ sendLog' = <<>>
    /\ dropped' = {}
    /\ UNCHANGED <<users, file, sent_reminders, now, dispatched, before, startedAt,
                   nextRun, nticks, service, stopped, conc>>

\* The except clause: scheduler.shutdown().
MainShutdown ==
    /\ pc_main = "except"
    /\ pc_main' = "done"
    /\ op' = [name |-> "scheduler.shutdown"]
    /\ UNCHANGED <<users, file, sent_reminders, now, payload, reply, sentNow, sendLog,
                   dispatched, dropped, before, startedAt, nextRun, nticks, service,
                   stopped, conc>>

\* bot.infinity_polling() returns without an exception: main() returns and
\* scheduler.shutdown() is not called.
MainReturn ==
    /\ Polling
    /\ pc_main' = "returned"
    /\ op' = [name |-> "return"]
    /\ payload' = NoFetch
    /\ reply' = NoReply
    /\ sentNow' = <<>>
    /\ sendLog' = <<>>
    /\ dropped' = {}
    /\ UNCHANGED <<users, file, sent_reminders, now, dispatched, before, startedAt,
                   nextRun, nticks, service, stopped, conc>>

ListenerStopped == pc_main \in {"except", "done", "returned"}

TimerStopped == pc_main = "done"

\* The pairs a, b of a list with a in front of b
ListOrder(u) ==
    {pr \in Range(u) \X Range(u) : \E i, j \in 1..Len(u) : i < j /\ pr = <<u[i], u[j]>>}

\* The process stops, by the interrupt or by a kill, and is started again:
\* prayer_bot = PrayerBot() loads the list and starts with an empty ledger.
Restart ==
    /\ pc_main \in {"polling", "except", "done", "returned"}
    /\ pc_main' = "main"
    /\ users' = load_users(file)
    /\ sent_reminders' = <<>>
    /\ before' = ListOrder(users')
    /\ dispatched' = ZeroCount
    /\ startedAt' = now
    /\ nextRun' = now
    /\ nticks' = 0
    /\ op' = [name |-> "restart"]
    /\ payload' = NoFetch
    /\ reply' = NoReply
    /\ sentNow' = <<>>
    /\ sendLog' = <<>>
    /\ dropped' = {}
    /\ UNCHANGED <<file, now, service, stopped, conc>>

\* A run of the job at the next reading of the clock, with a good answer.
LifeTick ==
    /\ Polling
    /\ NextReading(now).day \in Days
    /\ check_prayer_times(NextReading(now), "GoodDay")
    /\ nextRun' = NextRunAfter(NextReading(now))
    /\ UNCHANGED <<pc_main, startedAt, nticks, service, stopped, conc>>

NextLife ==
    \/ MainScheduler \/ MainPolling \/ LifeTick \/ Start \/ Stop
    \/ Interrupt \/ MainShutdown \/ MainReturn \/ Restart

SpecLife == Init /\ [][NextLife]_vars

----------------------------------------------------------------------------
(* The bot in steps: /start and /stop handlers on the worker threads and   *)
(* send_reminder on the job's thread, each a sequence of steps that the    *)
(* threads interleave; nothing in the code holds a lock                    *)

Commands == {"start", "stop"}

\* What the rest of the program's state does while the threads take steps
rest == <<sent_reminders, now, payload, op, reply, sentNow, sendLog, dispatched,
          dropped, before, pc_main, startedAt, nextRun, nticks, service>>

\* The chat ids with a /start under way on a thread other than h
Starting(h) ==
    {hmsg[g].chat_id : g \in {t \in Threads \ {h} : hmsg[t].cmd = "start"}}

\* A worker thread takes a message off the queue.  From the moment a /start
\* of a chat id is under way, the chat id no longer counts as stopped.
Receive(h) ==
    /\ Polling
    /\ hpc[h] = "idle"
    /\ \E cmd \in Commands, c \in ChatIds :
          /\ hmsg' = [hmsg EXCEPT ![h] = [cmd |-> cmd, chat_id |-> c]]
          /\ stopped' = IF cmd = "start" THEN stopped \ {c} ELSE stopped
          /\ barred' = IF cmd = "start" THEN barred \ {c} ELSE barred
    /\ hpc' = [hpc EXCEPT ![h] = "test"]
    /\ UNCHANGED <<users, file, tpc, idx, sentTo, stable, rest>>

\* "if chat_id not in prayer_bot.users" of start, "if chat_id in
\* prayer_bot.users" of stop
Test(h) ==
    /\ hpc[h] = "test"
    /\ hpc' = [hpc EXCEPT ![h] =
                  IF hmsg[h].cmd = "start"
                  THEN IF hmsg[h].chat_id \notin Range(users) THEN "append" ELSE "reply"
                  ELSE IF hmsg[h].chat_id \in Range(users) THEN "remove" ELSE "reply"]
    /\ UNCHANGED <<users, file, hmsg, stopped, barred, tpc, idx, sentTo, stable, rest>>

\* prayer_bot.users.append(chat_id)
DoAppend(h) ==
    /\ hpc[h] = "append"
    /\ users' = Append(users, hmsg[h].chat_id)
    /\ hpc' = [hpc EXCEPT ![h] = "save"]
    /\ UNCHANGED <<file, hmsg, stopped, barred, tpc, idx, sentTo, stable, rest>>

\* prayer_bot.users.remove(chat_id): raises ValueError, which ends the
\* handler, when another thread has removed the chat id since the test.
DoRemove(h) ==
    /\ hpc[h] = "remove"
    /\ IF hmsg[h].chat_id \in Range(users)
       THEN /\ users' = Remove(users, hmsg[h].chat_id)
            /\ hpc' = [hpc EXCEPT ![h] = "save"]
            /\ hmsg' = hmsg
       ELSE /\ users' = users
            /\ hpc' = [hpc EXCEPT ![h] = "idle"]
            /\ hmsg' = [hmsg EXCEPT ![h] = NoMessage]
    /\ stable' = IF tpc = "iterating" THEN stable \cap Range(users') ELSE stable
    /\ UNCHANGED <<file, stopped, barred, tpc, idx, sentTo, rest>>

\* prayer_bot.save_users(): the list as it is now.
DoSave(h) ==
    /\ hpc[h] = "save"
    /\ file' = save_users(users)
    /\ hpc' = [hpc EXCEPT ![h] = "reply"]
    /\ UNCHANGED <<users, hmsg, stopped, barred, tpc, idx, sentTo, stable, rest>>

\* bot.reply_to(...): the handler is complete.  A /stop that completes while
\* no /start of its chat id is under way leaves the chat id stopped.
DoReply(h) ==
    /\ hpc[h] = "reply"
    /\ hpc' = [hpc EXCEPT ![h] = "idle"]
    /\ hmsg' = [hmsg EXCEPT ![h] = NoMessage]
    /\ stopped' = IF hmsg[h].cmd = "stop" /\ hmsg[h].chat_id \notin Starting(h)
                  THEN stopped \cup {hmsg[h].chat_id}
                  ELSE stopped
    /\ UNCHANGED <<users, file, barred, tpc, idx, sentTo, stable, rest>>

\* A handler between its membership test and the end of its file rewrite
InMutation(h) == hpc[h] \in {"append", "remove", "save"}

\* check_prayer_times calls send_reminder: "for chat_id in self.users" makes
\* an iterator at position 0.
DispatchBegin ==
    /\ Polling
    /\ tpc # "iterating"
    /\ tpc' = "iterating"
    /\ idx' = 0
    /\ sentTo' = <<>>
    /\ stable' = Range(users)
    /\ barred' = stopped
    /\ UNCHANGED <<users, file, hpc, hmsg, stopped, rest>>

\* The iterator yields the element at its position of the list as it is now,
\* and the body sends to it.
DispatchSend ==
    /\ tpc = "iterating"
    /\ idx < Len(users)
    /\ sentTo' = Append(sentTo, users[idx + 1])
    /\ idx' = idx + 1
    /\ UNCHANGED <<users, file, hpc, hmsg, stopped, barred, tpc, stable, rest>>

\* The iterator is at or past the end of the list as it is now: the loop ends.
DispatchEnd ==
    /\ tpc = "iterating"
    /\ idx >= Len(users)
    /\ tpc' = "done"
    /\ UNCHANGED <<users, file, hpc, hmsg, stopped, barred, idx, sentTo, stable, rest>>

\* How many times send_reminder sent to x
TimesSent(x) == Cardinality({i \in 1..Len(sentTo) : sentTo[i] = x})

NextConc ==
    \/ MainScheduler \/ MainPolling
    \/ \E h \in Threads :
          Receive(h) \/ Test(h) \/ DoAppend(h) \/ DoRemove(h) \/ DoSave(h) \/ DoReply(h)
    \/ DispatchBegin \/ DispatchSend \/ DispatchEnd

SpecConc == Init /\ [][NextConc]_vars

----------------------------------------------------------------------------
(* Properties *)

IsTick(o) == o.name = "check_prayer_times"

FetchOk(o, pl) == IsTick(o) /\ get_prayer_times(pl) # None

Notified(ledger, day) == IF day \in DOMAIN ledger THEN Range(ledger[day]) ELSE {}

Parsed(pl, p) == strptime(get_prayer_times(pl)[p])

\* C1: on every date, send_reminder is called at most once for each prayer,
\* however many runs of the check read a clock inside the prayer's window.
C1_AtMostOncePerDay ==
    \A p \in PrayerNames : dispatched[p] <= 1

\* A run inside the window of Asr, on a date on which Asr was dispatched by
\* an earlier run, that dispatches nothing.
C1_Witness ==
    /\ FetchOk(op, payload)
    /\ payload = "GoodDay"
    /\ InWindow(time_diff(now, Parsed(payload, "Asr")))
    /\ dispatched["Asr"] = 1
    /\ sentNow = <<>>

\* C2: a run whose fetch succeeded dispatches a prayer if and only if the
\* local clock is less than 60 seconds away from the prayer's local time
\* minus one hour and the prayer is not yet in today's notified list.
C2_DispatchOneHourBefore ==
    [][(IsTick(op') /\ payload' \in GoodPayloads) =>
          \A p \in PrayerNames :
             p \in Range(sentNow') <=>
                /\ Abs(now'.sec - (Clock(Parsed(payload', p).hour,
                                         Parsed(payload', p).minute, 0) - HourSecs))
                      < WindowSecs
                /\ reminder_key(now'.day, p) \notin Notified(sent_reminders, now'.day)]_vars

\* C3: after every /start and /stop the file holds exactly the in-memory
\* list, and the list is in the order in which its members subscribed.
C3_FileIsListInOrder ==
    op.name \in {"start", "stop"} =>
       /\ load_users(file) = users
       /\ file = NoFile \/ file = json_dump(users)
       /\ \A i, j \in 1..Len(users) : i < j => <<users[i], users[j]>> \in before

\* A /start that appended its chat id behind an earlier subscriber with a
\* larger chat id.
C3_Witness ==
    /\ op.name = "start"
    /\ Len(users) = 2
    /\ users[2] = op.chat_id
    /\ users[1] > users[2]
    /\ file = json_dump(users)

\* C4: a /start by a subscriber and a /stop by a non-subscriber leave the
\* list and the file as they are; the first replies with the welcome, the
\* second with the "not subscribed" message.
C4_Idempotent ==
    [][/\ (op'.name = "start" /\ op'.chat_id \in Range(users)) =>
             (users' = users /\ file' = file /\ reply'.kind = "welcome")
       /\ (op'.name = "stop" /\ op'.chat_id \notin Range(users)) =>
             (users' = users /\ file' = file /\ reply'.kind = "not_subscribed")]_vars

\* A /stop by a non-subscriber while somebody else is subscribed.
C4_Witness ==
    /\ op.name = "stop"
    /\ reply.kind = "not_subscribed"
    /\ users # <<>>
    /\ file = json_dump(users)

\* C5: the first run with a successful fetch on a new date leaves a ledger
\* whose only key is the new date and whose list holds the prayers of that
\* very run and nothing of the earlier date.
C5_ResetOnNewDate ==
    [][(FetchOk(op', payload') /\ now'.day \notin DOMAIN sent_reminders) =>
          /\ DOMAIN sent_reminders' = {now'.day}
          /\ Range(sent_reminders'[now'.day]) =
                {reminder_key(now'.day, p) : p \in Range(sentNow')}]_vars

\* The run drops the Asr of the date before and dispatches Asr again.
C5_Witness ==
    /\ FetchOk(op, payload)
    /\ dropped = {reminder_key(now.day - 1, "Asr")}
    /\ sentNow = <<"Asr">>
    /\ sent_reminders = (now.day :> <<reminder_key(now.day, "Asr")>>)

\* C6: a run whose fetch fails calls send_reminder for no prayer and leaves
\* the ledger, the list and the file as they are.
C6_FailedFetchChangesNothing ==
    [][(IsTick(op') /\ get_prayer_times(payload') = None) =>
          /\ sentNow' = <<>>
          /\ sendLog' = <<>>
          /\ sent_reminders' = sent_reminders
          /\ users' = users
          /\ file' = file]_vars

\* A failed fetch on a new date: the ledger still holds the earlier date.
C6_Witness ==
    /\ IsTick(op)
    /\ get_prayer_times(payload) = None
    /\ sent_reminders # <<>>
    /\ now.day \notin DOMAIN sent_reminders

Malformed(pl) ==
    \/ ~Service(pl).transport
    \/ Service(pl).code # HttpOk
    \/ \E p \in PrayerNames :
          \/ p \notin DOMAIN Service(pl).timings
          \/ ~strptime(Service(pl).timings[p]).ok

\* C7: a run that gets a malformed answer (no answer, a code other than 200,
\* a prayer missing, a time that is not HH:MM) dispatches nothing and leaves
\* the ledger, the list and the file as they are.
C7_MalformedIsFailure ==
    [][(IsTick(op') /\ Malformed(payload')) =>
          /\ sentNow' = <<>>
          /\ sent_reminders' = sent_reminders
          /\ users' = users
          /\ file' = file]_vars

\* C8: every call of send_reminder attempts one send to every chat id of the
\* list, in the order of the list, whichever sends raise, and the list and
\* the file stay as they are.
C8_EverySubscriberOnce ==
    [][IsTick(op') =>
          /\ users' = users
          /\ file' = file
          /\ Len(sendLog') = Len(sentNow') * Len(users)
          /\ \A k \in 1..Len(sentNow'), i \in 1..Len(users) :
                /\ sendLog'[(k - 1) * Len(users) + i].chat_id = users[i]
                /\ sendLog'[(k - 1) * Len(users) + i].prayer = sentNow'[k]]_vars

\* A dispatch whose first send raised and whose second send went through.
C8_Witness ==
    /\ IsTick(op)
    /\ Len(sendLog) = 2
    /\ ~sendLog[1].ok
    /\ sendLog[2].ok
    /\ users = <<sendLog[1].chat_id, sendLog[2].chat_id>>

\* C9: on schedule and with a steady time-table, once the runs of a day are
\* over every prayer at or after 01:00 was dispatched on that day.
C9_EveryPrayerDispatched ==
    \A p \in PrayerNames :
       Clock(Parsed(service, p).hour, Parsed(service, p).minute, 0) >= HourSecs =>
          (nextRun.day > now.day => dispatched[p] >= 1)

\* The day is over: the prayers at 01:00 and at 23:59 were dispatched, the
\* one at 00:05 was not.
C9_Witness ==
    /\ nextRun.day > now.day
    /\ service = "GoodEdge"
    /\ dispatched["Dhuhr"] = 1
    /\ dispatched["Isha"] = 1
    /\ dispatched["Fajr"] = 0

\* C10 as written: the first run of the job is at the start, the k-th run
\* k - 1 intervals later.
C10_FirstTickAtStart ==
    nticks >= 1 => Secs(now) - Secs(startedAt) = IntervalSecs * (nticks - 1)

\* C10: the first run of the job is one interval after the start, the k-th
\* run k intervals after it, and the next run is due one interval after the
\* last, while the command handlers run in between.
C10_TickEveryInterval ==
    /\ nticks >= 1 => Secs(now) - Secs(startedAt) = IntervalSecs * nticks
    /\ SchedulerRunning => Secs(nextRun) - Secs(now) = IntervalSecs

\* A /start handled between the first and the second run of the job.
C10_Witness ==
    /\ nticks = 1
    /\ op.name = "start"
    /\ Secs(now) - Secs(startedAt) = IntervalSecs
    /\ Polling

\* C11: on the operator's interrupt the job's scheduler is shut down before
\* the listener stops: whenever the listener has stopped, the scheduler has
\* been shut down.
C11_TimerStopsFirst ==
    ListenerStopped => TimerStopped

\* C17: a restart loads the list the process held when it stopped, in the
\* same order, and the empty list when there is no file.
C17_RestartLoadsList ==
    [][op'.name = "restart" =>
          /\ users' = users
          /\ file = NoFile => users' = <<>>]_vars

\* A restart that loaded two subscribers, the larger chat id first.
C17_Witness ==
    /\ op.name = "restart"
    /\ Len(users) = 2
    /\ users[1] > users[2]
    /\ file = json_dump(users)

\* C12: /today sends one reply, the five prayers in order each with the time
\* string of the answer when the fetch succeeds and the apology when it
\* fails, and leaves the list, the file and the ledger as they are.
C12_TodayReply ==
    [][op'.name = "today" =>
          /\ get_prayer_times(payload') # None =>
                /\ reply'.kind = "times"
                /\ reply'.lines =
                      [i \in 1..5 |->
                          <<PrayerOrder[i], Service(payload').timings[PrayerOrder[i]]>>]
          /\ get_prayer_times(payload') = None => reply' = [kind |-> "apology"]
          /\ users' = users
          /\ file' = file
          /\ sent_reminders' = sent_reminders]_vars

\* A /today that listed the times while somebody is subscribed and Asr is
\* in the ledger.
C12_Witness ==
    /\ op.name = "today"
    /\ reply.kind = "times"
    /\ reply.lines[3] = <<"Asr", T1600>>
    /\ Len(reply.lines) = 5
    /\ users # <<>>
    /\ Notified(sent_reminders, now.day) # {}

\* C16: the ledger has at most one date key; after a run whose fetch
\* succeeded the key is the clock's date; a date's list holds reminder keys
\* of that date and of the five prayers only, none twice (so at most five).
C16_LedgerOneDate ==
    /\ Cardinality(DOMAIN sent_reminders) <= 1
    /\ FetchOk(op, payload) => DOMAIN sent_reminders = {now.day}
    /\ \A d \in DOMAIN sent_reminders :
          /\ DupFree(sent_reminders[d])
          /\ Range(sent_reminders[d]) \subseteq {reminder_key(d, p) : p \in PrayerNames}
          /\ Len(sent_reminders[d]) <= Cardinality(PrayerNames)

\* A run on a new date that threw out the entry of the date before and
\* then raised on a time string, after it had dispatched Asr.
C16_Witness ==
    /\ IsTick(op)
    /\ payload = "BadTime"
    /\ dropped # {}
    /\ sent_reminders = (now.day :> <<reminder_key(now.day, "Asr")>>)

\* C18: the ledger changes only in a run of check_prayer_times; /start,
\* /today and /stop leave it as it is.
C18_OnlyTickChangesLedger ==
    [][sent_reminders' # sent_reminders => IsTick(op')]_vars

\* A /stop that removed a subscriber while Asr is in the ledger.
C18_Witness ==
    /\ op.name = "stop"
    /\ reply.kind = "deactivated"
    /\ reminder_key(now.day, "Asr") \in Notified(sent_reminders, now.day)

\* C19: a prayer is in today's notified list exactly when send_reminder was
\* called for it on the clock's date, whether or not a send went through,
\* and a run never dispatches a prayer that is in the list.
C19_NotifiedIffDispatched ==
    /\ [](\A p \in PrayerNames :
            reminder_key(now.day, p) \in Notified(sent_reminders, now.day)
               <=> dispatched[p] >= 1)
    /\ [][IsTick(op') =>
            \A p \in PrayerNames :
               reminder_key(now'.day, p) \in Notified(sent_reminders, now'.day)
                  => p \notin Range(sentNow')]_vars

\* A run that dispatched Asr to an empty list: Asr is in the notified list
\* although nobody was sent a reminder.
C19_Witness ==
    /\ IsTick(op)
    /\ sentNow = <<"Asr">>
    /\ users = <<>>
    /\ sendLog = <<>>
    /\ dispatched["Asr"] = 1
    /\ reminder_key(now.day, "Asr") \in Notified(sent_reminders, now.day)

\* C13: the in-memory list never holds a chat id twice, however the steps
\* of the handlers on the worker threads interleave.
C13_NoDuplicates ==
    DupFree(users)

\* C14: while a handler is between its membership test and the end of its
\* file rewrite, no other handler is, and send_reminder is not iterating
\* over the list.
C14_CriticalSection ==
    \A h \in Threads :
       InMutation(h) =>
          /\ \A g \in Threads \ {h} : ~InMutation(g)
          /\ tpc # "iterating"

\* C15: when a dispatch ends, every chat id that was in the list ever since
\* the dispatch began was sent to exactly once.
C15_EveryStableOnce ==
    tpc = "done" => \A x \in stable : TimesSent(x) = 1

\* C20: a dispatch sends to no chat id whose /stop was complete when the
\* dispatch began, with no /start of that chat id under way since the /stop
\* completed.
C20_NoSendAfterStop ==
    \A i \in 1..Len(sentTo) : sentTo[i] \notin barred

====
